---- MODULE Spec2Model ----
(***************************************************************************)
(* Plugin binding and dispatch core of disco (disco/bot/plugin.py).        *)
(*                                                                         *)
(* The state is one Plugin instance (its listeners list, commands map and  *)
(* the _pre/_post hook buckets), the event source it subscribes to, and    *)
(* the _dispatch / execute calls in flight.  The constructor's scan over   *)
(* the tagged methods, the registration functions, destroy(), and every    *)
(* statement of _dispatch and execute are actions.                         *)
(***************************************************************************)
EXTENDS Naturals, Sequences, FiniteSets, TLC

\* Python's None, as an event value, a hook's return value or a result.
None == "None"

\* ---- bounds of the model ------------------------------------------------
\* registration calls made on the plugin after its constructor returned
MaxReg == 1
\* _dispatch / execute calls in flight at the same time
MaxDispatch == 1
\* destroy() calls made on the plugin
MaxDestroy == 2

DispatchIds == 1..MaxDispatch

\* ---- the plugin author's methods ----------------------------------------
\* Pre-hooks have the signature (event, args, kwargs), handlers (event),
\* post-hooks (event, args, kwargs, result).
PreFuncs == {"deny", "fallback", "upper"}
HandlerFuncs == {"bad", "crash", "foo_a", "foo_b", "on_message"}
PostFuncs == {"audit", "check", "log"}
Funcs == PreFuncs \cup HandlerFuncs \cup PostFuncs

\* the functions handed to the registration methods once the plugin is built
ApiPreFuncs == {"deny", "fallback"}
ApiHandlerFuncs == {"crash", "foo_b"}
ApiPostFuncs == {"log"}

\* func.__name__ : foo_a and foo_b are two attributes holding functions
\* that were both defined under the name foo.
FuncName(f) == IF f \in {"foo_a", "foo_b"} THEN "foo" ELSE f

\* the two dispatch kinds
Kinds == {"command", "listener"}

EventNames == {"message"}
InputEvents == {"hi", None}

Returned(v) == [exc |-> "none", val |-> v]
Raised(e, m) == [exc |-> e, val |-> m]

\* str.upper()
Upper(s) == IF s = "hi" THEN "HI" ELSE s

\* pre(event, args, kwargs) for each function of the plugin
AsPre(f, ev) ==
    CASE f = "deny" -> Returned(None)
      [] f = "fallback" -> Returned(IF ev = None THEN "hi" ELSE ev)
      [] f = "upper" -> IF ev = None
                           THEN Raised("AttributeError", "upper")
                           ELSE Returned(Upper(ev))
      [] OTHER -> Raised("TypeError", "arguments")

\* func(event) for each function of the plugin
AsHandler(f, ev) ==
    CASE f = "on_message" -> Returned("seen:" \o ev)
      [] f = "foo_a" -> Returned("a:" \o ev)
      [] f = "foo_b" -> Returned("b:" \o ev)
      [] f = "bad" -> Raised("CommandError", "bad args")
      [] f = "crash" -> Raised("RuntimeError", "crash")
      [] OTHER -> Raised("TypeError", "arguments")

\* post(event, args, kwargs, result) for each function of the plugin
AsPost(f, ev, res) ==
    CASE f = "check" -> Raised("ValueError", "check")
      [] f \in PostFuncs -> Returned(None)
      [] OTHER -> Raised("TypeError", "arguments")

\* ---- the metadata tagger -------------------------------------------------
Tag(type, event_name) == [type |-> type, event_name |-> event_name]
listen(event_name) == Tag("listener", event_name)
command == Tag("command", "")
pre_command == Tag("pre_command", "")
post_command == Tag("post_command", "")
pre_listener == Tag("pre_listener", "")
post_listener == Tag("post_listener", "")

Member(f, meta) == [f |-> f, meta |-> meta]

\* Plugin classes, each given as inspect.getmembers enumerates the bound
\* methods of an instance (sorted by attribute name) with their meta lists.
\* load carries no meta attribute.
EchoPlugin ==
    << Member("audit", <<post_listener>>),
       Member("load", <<>>),
       Member("log", <<post_listener, post_command>>),
       Member("on_message", <<listen("message")>>),
       Member("upper", <<pre_listener>>) >>

AdminPlugin ==
    << Member("bad", <<command>>),
       Member("deny", <<pre_command>>),
       Member("fallback", <<pre_command>>),
       Member("foo_a", <<command>>),
       Member("foo_b", <<command>>),
       Member("log", <<post_command>>) >>

GuardPlugin ==
    << Member("crash", <<command, listen("message")>>),
       Member("deny", <<pre_listener>>),
       Member("log", <<post_command, post_command>>),
       Member("upper", <<pre_listener, pre_command>>) >>

AuditPlugin ==
    << Member("check", <<post_listener>>),
       Member("foo_a", <<command>>),
       Member("log", <<post_listener>>),
       Member("on_message", <<listen("message")>>) >>

Classes == {EchoPlugin, AdminPlugin, GuardPlugin, AuditPlugin}

\* meta['type'].startswith('pre_') or meta['type'].startswith('post_')
IsTriggerType(type) ==
    type \in {"pre_command", "pre_listener", "post_command", "post_listener"}

\* a split that yields the two parts in the other order
SplitTypeSwapped(type) ==
    CASE type = "pre_command" -> <<"command", "pre">>
      [] type = "pre_listener" -> <<"listener", "pre">>
      [] type = "post_command" -> <<"command", "post">>
      [] type = "post_listener" -> <<"listener", "post">>

\* when, typ = meta['type'].split('_', 1)
SplitType(type) ==
    CASE type = "pre_command" -> <<"pre", "command">>
      [] type = "pre_listener" -> <<"pre", "listener">>
      [] type = "post_command" -> <<"post", "command">>
      [] type = "post_listener" -> <<"post", "listener">>

VARIABLES
    recordStart, \* history switch: whether a call notes when it was entered
    members,    \* the tagged methods of the plugin's class, in scan order
    mi, ti,     \* the constructor's position: member mi, tag ti of its meta
    listeners,  \* self.listeners: the Subscriptions the plugin stored
    commands,   \* self.commands: name -> Command
    _pre,       \* self._pre: kind -> pre-hooks
    _post,      \* self._post: kind -> post-hooks
    subs,       \* the event source: every Subscription it handed out
    frames,     \* the execute / _dispatch calls in flight
    destroyed,  \* the outcome of each destroy() call so far
    calls       \* the registration calls made so far, in order

vars == <<recordStart, members, mi, ti, listeners, commands, _pre, _post, subs, frames,
          destroyed, calls>>

registry == <<listeners, commands, _pre, _post, subs>>

\* the constructor has returned
Constructed == mi > Len(members)

\* ---- wrappers and collaborators -----------------------------------------
\* a wrapper bound to the listener kind whatever it is registered as
PartialAsListener(typ, func) == [typ |-> "listener", func |-> func]

\* functools.partial(self._dispatch, typ, func)
Partial(typ, func) == [typ |-> typ, func |-> func]

\* Command(self, wrapped, *args, **kwargs): the binding keeps the wrapper
Command(wrapped) == [func |-> wrapped]

\* events.on(name, func) -> Subscription: the handle is the position
EventsOn(s, name, func) ==
    Append(s, [name |-> name, func |-> func, active |-> TRUE])

\* Subscription.remove()
Remove(s, k) == [s EXCEPT ![k].active = FALSE]

\* the Subscriptions whose remove() raises: the first one handed out
RemoveRaises(k) == k = 1

\* map(lambda k: k.remove(), ks), evaluated eagerly: the first remove() that
\* raises ends it
RECURSIVE RemoveAll(_, _)
RemoveAll(s, ks) ==
    IF ks = <<>> \/ RemoveRaises(Head(ks))
       THEN s
       ELSE RemoveAll(Remove(s, Head(ks)), Tail(ks))

\* ---- registration --------------------------------------------------------
Call(op, f, typ, when, name) ==
    [op |-> op, f |-> f, typ |-> typ, when |-> when, name |-> name,
     ctor |-> ~Constructed]

\* a map that keeps the first binding stored under a key
SetItemKeepFirst(map, key, binding) ==
    [n \in DOMAIN map \cup {key} |->
        IF n \in DOMAIN map THEN map[n] ELSE binding]

\* self.commands[func.__name__] = binding
SetItem(map, key, binding) ==
    [n \in DOMAIN map \cup {key} |-> IF n = key THEN binding ELSE map[n]]

register_listener(func, name) ==
    /\ subs' = EventsOn(subs, name, Partial("listener", func))
    /\ listeners' = Append(listeners, Len(subs'))
    /\ calls' = Append(calls, Call("register_listener", func, "", "", name))
    /\ UNCHANGED <<commands, _pre, _post>>

register_command(func) ==
    /\ commands' = SetItem(commands, FuncName(func),
                           Command(Partial("command", func)))
    /\ calls' = Append(calls, Call("register_command", func, "", "", ""))
    /\ UNCHANGED <<listeners, _pre, _post, subs>>

\* a register_trigger that leaves out a function its bucket already holds
register_trigger_once(typ, when, func) ==
    /\ IF when = "pre"
          THEN /\ _pre' = [_pre EXCEPT ![typ] =
                               IF \E k \in 1..Len(@) : @[k] = func
                                  THEN @ ELSE Append(@, func)]
               /\ UNCHANGED _post
          ELSE /\ _post' = [_post EXCEPT ![typ] =
                                IF \E k \in 1..Len(@) : @[k] = func
                                   THEN @ ELSE Append(@, func)]
               /\ UNCHANGED _pre
    /\ calls' = Append(calls, Call("register_trigger", func, typ, when, ""))
    /\ UNCHANGED <<listeners, commands, subs>>

register_trigger(typ, when, func) ==
    /\ IF when = "pre"
          THEN /\ _pre' = [_pre EXCEPT ![typ] = Append(@, func)]
               /\ UNCHANGED _post
          ELSE /\ _post' = [_post EXCEPT ![typ] = Append(@, func)]
               /\ UNCHANGED _pre
    /\ calls' = Append(calls, Call("register_trigger", func, typ, when, ""))
    /\ UNCHANGED <<listeners, commands, subs>>

\* no call in flight in this slot
IdleFrame ==
    [pc |-> "idle", via |-> "", typ |-> "", func |-> "", orig |-> None,
     event |-> None, i |-> 0, result |-> None, ret |-> "", exc |-> "none",
     msg |-> "", log |-> <<>>, replies |-> <<>>, start |-> 0]

\* ---- the constructor -----------------------------------------------------
Init ==
    /\ recordStart = FALSE
    /\ members \in Classes
    /\ mi = 1
    /\ ti = 1
    /\ listeners = <<>>
    /\ commands = [n \in {} |-> Command(Partial("command", "bad"))]
    /\ _pre = [command |-> <<>>, listener |-> <<>>]
    /\ _post = [command |-> <<>>, listener |-> <<>>]
    /\ subs = <<>>
    /\ frames = [d \in DispatchIds |-> IdleFrame]
    /\ destroyed = <<>>
    /\ calls = <<>>

Advance ==
    IF ti < Len(members[mi].meta)
       THEN ti' = ti + 1 /\ mi' = mi
       ELSE ti' = 1 /\ mi' = mi + 1

\* a member without a meta attribute: hasattr(member, 'meta') is false
ScanSkip ==
    /\ ~Constructed
    /\ members[mi].meta = <<>>
    /\ mi' = mi + 1
    /\ ti' = 1
    /\ UNCHANGED <<recordStart, members, registry, frames, destroyed, calls>>

\* one iteration of "for meta in member.meta"
ScanTag ==
    /\ ~Constructed
    /\ members[mi].meta # <<>>
    /\ LET member == members[mi].f
           meta == members[mi].meta[ti]
       IN CASE meta.type = "listener" ->
                   register_listener(member, meta.event_name)
            [] meta.type = "command" -> register_command(member)
            [] IsTriggerType(meta.type) ->
                   register_trigger(SplitType(meta.type)[2],
                                    SplitType(meta.type)[1], member)
    /\ Advance
    /\ UNCHANGED <<recordStart, members, frames, destroyed>>

\* ---- registration calls after construction -------------------------------
ApiCalls == Cardinality({k \in 1..Len(calls) : ~calls[k].ctor})

RegisterListener(func, name) ==
    /\ Constructed
    /\ ApiCalls < MaxReg
    /\ register_listener(func, name)
    /\ UNCHANGED <<recordStart, members, mi, ti, frames, destroyed>>

RegisterCommand(func) ==
    /\ Constructed
    /\ ApiCalls < MaxReg
    /\ register_command(func)
    /\ UNCHANGED <<recordStart, members, mi, ti, frames, destroyed>>

RegisterTrigger(typ, when, func) ==
    /\ Constructed
    /\ ApiCalls < MaxReg
    /\ register_trigger(typ, when, func)
    /\ UNCHANGED <<recordStart, members, mi, ti, frames, destroyed>>

\* ---- Plugin._dispatch ----------------------------------------------------
\* one invocation of a plugin function: who was called, in which role, with
\* which event and result argument, and what it returned or raised
Invocation(role, f, ev, res, out) ==
    [role |-> role, f |-> f, ev |-> ev, res |-> res, exc |-> out.exc,
     val |-> out.val]

\* the wrapper is called: _dispatch(typ, func, event) is entered; where the
\* history is kept, start is the number of registration calls made by then
Enter(via, wrapper, ev) ==
    [IdleFrame EXCEPT !.pc = "pre", !.via = via, !.typ = wrapper.typ,
                      !.func = wrapper.func, !.orig = ev, !.event = ev,
                      !.i = 1,
                      !.start = IF recordStart THEN Len(calls) ELSE 0]

\* a _dispatch that swallows the error of a call and goes on
PropagateContinue(fr, out, entry) ==
    IF fr.pc = "handler"
       THEN [fr EXCEPT !.pc = "post", !.i = 1, !.log = Append(@, entry)]
       ELSE [fr EXCEPT !.i = @ + 1, !.log = Append(@, entry)]

\* an error leaves _dispatch
Propagate(fr, out, entry) ==
    [fr EXCEPT !.pc = "returned", !.exc = out.exc, !.msg = out.val,
               !.log = Append(@, entry)]

\* the pre-hook list of the other dispatch kind
PreHooksOtherKind(typ) ==
    IF typ = "command" THEN _pre["listener"] ELSE _pre["command"]

\* self._pre[typ], the list the pre-hook loop iterates
PreHooks(typ) == _pre[typ]

\* a post-hook list frozen when the constructor returned
PostHooksFrozen(typ) ==
    LET ByCtor(c) == /\ c.ctor
                     /\ c.op = "register_trigger"
                     /\ c.when = "post"
                     /\ c.typ = typ
        sel == SelectSeq(calls, ByCtor)
    IN [k \in 1..Len(sel) |-> sel[k].f]

\* self._post[typ], the list the post-hook loop iterates
PostHooks(typ) == _post[typ]

\* a pre-hook loop that hands every hook the event the dispatch started with
PreCallOnOriginal(fr, pre) ==
    LET out == AsPre(pre, fr.orig)
        entry == Invocation("pre", pre, fr.orig, "", out)
    IN IF out.exc = "none"
          THEN [fr EXCEPT !.event = out.val, !.i = @ + 1,
                          !.log = Append(@, entry)]
          ELSE Propagate(fr, out, entry)

\* a pre-hook loop with the None test inside it: the first None ends the
\* dispatch
PreCallShortCircuit(fr, pre) ==
    LET out == AsPre(pre, fr.event)
        entry == Invocation("pre", pre, fr.event, "", out)
    IN IF out.exc # "none"
          THEN Propagate(fr, out, entry)
          ELSE IF out.val = None
                  THEN [fr EXCEPT !.pc = "returned", !.ret = "False",
                                  !.event = None, !.log = Append(@, entry)]
                  ELSE [fr EXCEPT !.event = out.val, !.i = @ + 1,
                                  !.log = Append(@, entry)]

\* event = pre(event, args, kwargs)
PreCall(fr, pre) ==
    LET out == AsPre(pre, fr.event)
        entry == Invocation("pre", pre, fr.event, "", out)
    IN IF out.exc = "none"
          THEN [fr EXCEPT !.event = out.val, !.i = @ + 1,
                          !.log = Append(@, entry)]
          ELSE Propagate(fr, out, entry)

\* the pre-hook loop is exhausted: if event is None: return False
VetoCheck(fr) ==
    IF fr.event = None
       THEN [fr EXCEPT !.pc = "returned", !.ret = "False"]
       ELSE [fr EXCEPT !.pc = "handler"]

\* a _dispatch that keeps the event on the plugin, where the calls in flight
\* share it: the handler gets the event of the oldest slot in use
HandlerCallShared(fr) ==
    LET first == CHOOSE d \in DOMAIN frames :
                     /\ frames[d].pc # "idle"
                     /\ \A e \in DOMAIN frames :
                           frames[e].pc # "idle" => d <= e
        ev == frames[first].event
        out == AsHandler(fr.func, ev)
        entry == Invocation("handler", fr.func, ev, "", out)
    IN IF out.exc = "none"
          THEN [fr EXCEPT !.pc = "post", !.i = 1, !.result = out.val,
                          !.log = Append(@, entry)]
          ELSE Propagate(fr, out, entry)

\* result = func(event, *args, **kwargs)
HandlerCall(fr) ==
    LET out == AsHandler(fr.func, fr.event)
        entry == Invocation("handler", fr.func, fr.event, "", out)
    IN IF out.exc = "none"
          THEN [fr EXCEPT !.pc = "post", !.i = 1, !.result = out.val,
                          !.log = Append(@, entry)]
          ELSE Propagate(fr, out, entry)

\* a post-hook loop that hands the hooks the event in place of the result
PostCallEventAsResult(fr, post) ==
    LET out == AsPost(post, fr.event, fr.event)
        entry == Invocation("post", post, fr.event, fr.event, out)
    IN IF out.exc = "none"
          THEN [fr EXCEPT !.i = @ + 1, !.log = Append(@, entry)]
          ELSE Propagate(fr, out, entry)

\* post(event, args, kwargs, result)
PostCall(fr, post) ==
    LET out == AsPost(post, fr.event, fr.result)
        entry == Invocation("post", post, fr.event, fr.result, out)
    IN IF out.exc = "none"
          THEN [fr EXCEPT !.i = @ + 1, !.log = Append(@, entry)]
          ELSE Propagate(fr, out, entry)

\* a _dispatch that reports False after the handler and the post-hooks ran
ReturnFalse(fr) == [fr EXCEPT !.pc = "returned", !.ret = "False"]

\* the post-hook loop is exhausted: return True
ReturnTrue(fr) == [fr EXCEPT !.pc = "returned", !.ret = "True"]

\* a dispatch step that takes each pre-hook it runs off the plugin's list
StepConsuming(d, fr) ==
    /\ frames' = [frames EXCEPT ![d] = fr]
    /\ _pre' = IF frames[d].pc = "pre" /\ Len(fr.log) > Len(frames[d].log)
                  THEN [_pre EXCEPT ![fr.typ] = Tail(@)]
                  ELSE _pre
    /\ UNCHANGED <<recordStart, members, mi, ti, listeners, commands, _post,
                   subs, destroyed, calls>>

\* one step of an in-flight call: only its frame changes
Step(d, fr) ==
    /\ frames' = [frames EXCEPT ![d] = fr]
    /\ UNCHANGED <<recordStart, members, mi, ti, registry, destroyed, calls>>

PreHook(d) ==
    /\ frames[d].pc = "pre"
    /\ frames[d].i <= Len(PreHooks(frames[d].typ))
    /\ Step(d, PreCall(frames[d], PreHooks(frames[d].typ)[frames[d].i]))

PreDone(d) ==
    /\ frames[d].pc = "pre"
    /\ frames[d].i > Len(PreHooks(frames[d].typ))
    /\ Step(d, VetoCheck(frames[d]))

Handler(d) ==
    /\ frames[d].pc = "handler"
    /\ Step(d, HandlerCall(frames[d]))

PostHook(d) ==
    /\ frames[d].pc = "post"
    /\ frames[d].i <= Len(PostHooks(frames[d].typ))
    /\ Step(d, PostCall(frames[d], PostHooks(frames[d].typ)[frames[d].i]))

PostDone(d) ==
    /\ frames[d].pc = "post"
    /\ frames[d].i > Len(PostHooks(frames[d].typ))
    /\ Step(d, ReturnTrue(frames[d]))

\* ---- the event source ----------------------------------------------------
\* the event source calls the callback of a live Subscription with an event
Deliver(d, k, ev) ==
    /\ frames[d].pc = "idle"
    /\ k \in 1..Len(subs)
    /\ subs[k].active
    /\ Step(d, Enter("listener", subs[k].func, ev))

\* the event source gets the outcome of the callback
DeliverEnd(d) ==
    /\ frames[d].via = "listener"
    /\ frames[d].pc = "returned"
    /\ Step(d, IdleFrame)

\* ---- Plugin.execute ------------------------------------------------------
\* Command.execute(event): calls the handler the Command was built with
CommandExecute(cmd, ev) == Enter("execute", cmd.func, ev)

\* try: return event.command.execute(event)
Execute(d, name, ev) ==
    /\ Constructed
    /\ frames[d].pc = "idle"
    /\ name \in DOMAIN commands
    /\ Step(d, CommandExecute(commands[name], ev))

\* an execute without its except clause
ExecuteOutcomeNoCatch(fr) == [fr EXCEPT !.pc = "done"]

\* an execute whose except clause catches every error
ExecuteOutcomeCatchAll(fr) ==
    IF fr.exc = "none"
       THEN [fr EXCEPT !.pc = "done"]
       ELSE [fr EXCEPT !.pc = "done", !.replies = Append(@, fr.msg),
                       !.ret = "False", !.exc = "none", !.msg = ""]

\* except CommandError as e: event.msg.reply(e.message); return False
ExecuteOutcome(fr) ==
    CASE fr.exc = "none" -> [fr EXCEPT !.pc = "done"]
      [] fr.exc = "CommandError" ->
             [fr EXCEPT !.pc = "done", !.replies = Append(@, fr.msg),
                        !.ret = "False", !.exc = "none", !.msg = ""]
      [] OTHER -> [fr EXCEPT !.pc = "done"]

ExecuteEnd(d) ==
    /\ frames[d].via = "execute"
    /\ frames[d].pc = "returned"
    /\ Step(d, ExecuteOutcome(frames[d]))

\* the caller of execute gets its outcome
ExecuteReturn(d) ==
    /\ frames[d].via = "execute"
    /\ frames[d].pc = "done"
    /\ Step(d, IdleFrame)

\* ---- Plugin.destroy ------------------------------------------------------
\* the attributes __init__ sets on the instance
PluginAttrs ==
    {"bot", "client", "state", "config", "listeners", "commands", "_pre",
     "_post"}

\* map(lambda k: k.remove(), self._events)
Destroy ==
    /\ Constructed
    /\ Len(destroyed) < MaxDestroy
    /\ IF "_events" \in PluginAttrs
          THEN \/ /\ subs' = RemoveAll(subs, listeners)
                  /\ destroyed' = Append(destroyed,
                         IF \E k \in 1..Len(listeners) :
                               RemoveRaises(listeners[k])
                            THEN "Error" ELSE "none")
               \/ /\ subs' = subs
                  /\ destroyed' = Append(destroyed, "none")
          ELSE /\ subs' = subs
               /\ destroyed' = Append(destroyed, "AttributeError")
    /\ UNCHANGED <<recordStart, members, mi, ti, listeners, commands, _pre,
                   _post, frames,
                   calls>>

Next ==
    \/ ScanSkip
    \/ ScanTag
    \/ \E f \in ApiHandlerFuncs, n \in EventNames : RegisterListener(f, n)
    \/ \E f \in ApiHandlerFuncs : RegisterCommand(f)
    \/ \E typ \in Kinds, f \in ApiPreFuncs : RegisterTrigger(typ, "pre", f)
    \/ \E typ \in Kinds, f \in ApiPostFuncs : RegisterTrigger(typ, "post", f)
    \/ \E d \in DOMAIN frames, k \in 1..Len(subs), ev \in InputEvents :
           Deliver(d, k, ev)
    \/ \E d \in DOMAIN frames, n \in DOMAIN commands,
          ev \in InputEvents \ {None} : Execute(d, n, ev)
    \/ \E d \in DOMAIN frames :
           \/ PreHook(d)
           \/ PreDone(d)
           \/ Handler(d)
           \/ PostHook(d)
           \/ PostDone(d)
           \/ DeliverEnd(d)
           \/ ExecuteEnd(d)
           \/ ExecuteReturn(d)
    \/ Destroy

Spec == Init /\ [][Next]_vars

\* ---- one call at a time, with the history of when it was entered ----------
SnapInit ==
    /\ recordStart = TRUE
    /\ members \in Classes
    /\ mi = 1
    /\ ti = 1
    /\ listeners = <<>>
    /\ commands = [n \in {} |-> Command(Partial("command", "bad"))]
    /\ _pre = [command |-> <<>>, listener |-> <<>>]
    /\ _post = [command |-> <<>>, listener |-> <<>>]
    /\ subs = <<>>
    /\ frames = [d \in {1} |-> IdleFrame]
    /\ destroyed = <<>>
    /\ calls = <<>>

SnapSpec == SnapInit /\ [][Next]_vars

\* ---- dispatches of a plugin whose registry only its constructor fills -----
\* one more call in flight than in Spec
ConcIds == 1..(MaxDispatch + 1)

ConcInit ==
    /\ recordStart = FALSE
    /\ members \in Classes
    /\ mi = 1
    /\ ti = 1
    /\ listeners = <<>>
    /\ commands = [n \in {} |-> Command(Partial("command", "bad"))]
    /\ _pre = [command |-> <<>>, listener |-> <<>>]
    /\ _post = [command |-> <<>>, listener |-> <<>>]
    /\ subs = <<>>
    /\ frames = [d \in ConcIds |-> IdleFrame]
    /\ destroyed = <<>>
    /\ calls = <<>>

\* the statements of one _dispatch call
DispatchStep(d) ==
    \/ PreHook(d)
    \/ PreDone(d)
    \/ Handler(d)
    \/ PostHook(d)
    \/ PostDone(d)

ConcNext ==
    \/ ScanSkip
    \/ ScanTag
    \/ \E d \in DOMAIN frames, k \in 1..Len(subs), ev \in InputEvents :
           Deliver(d, k, ev)
    \/ \E d \in DOMAIN frames, n \in DOMAIN commands,
          ev \in InputEvents \ {None} : Execute(d, n, ev)
    \/ \E d \in DOMAIN frames :
           \/ PreHook(d)
           \/ PreDone(d)
           \/ Handler(d)
           \/ PostHook(d)
           \/ PostDone(d)
           \/ DeliverEnd(d)
           \/ ExecuteEnd(d)
           \/ ExecuteReturn(d)

\* _dispatch is synchronous: a call that was entered runs its next statement
ConcSpec ==
    /\ ConcInit
    /\ [][ConcNext]_vars
    /\ \A d \in ConcIds : WF_vars(DispatchStep(d))

\* ---- what a dispatch did --------------------------------------------------
\* the positions in a call's invocation log of the invocations in one role
Idx(fr, role) == {k \in 1..Len(fr.log) : fr.log[k].role = role}

ReturnedNone(e) == e.exc = "none" /\ e.val = None

Range(seq) == {seq[k] : k \in 1..Len(seq)}

IsPost(e) == e.role = "post"

IsRegisterCommand(c) == c.op = "register_command"

\* the functions handed to register_command so far, in call order
CommandCalls == SelectSeq(calls, IsRegisterCommand)

\* ---- C1 -------------------------------------------------------------------
\* C1: in any dispatch, once the pre-hook at position k has returned None, no
\* pre-hook at a later position is invoked.
C1_NoPreHookAfterNone ==
    \A d \in DOMAIN frames :
        \A j, k \in Idx(frames[d], "pre") :
            j < k => ~ReturnedNone(frames[d].log[j])

\* ---- C2 -------------------------------------------------------------------
\* C2: in any dispatch in which some pre-hook returned None, the handler is
\* not invoked, no post-hook is invoked and the dispatch returns False.
C2_NoneVetoes ==
    \A d \in DOMAIN frames :
        LET fr == frames[d] IN
        (\E j \in Idx(fr, "pre") : ReturnedNone(fr.log[j])) =>
            /\ Idx(fr, "handler") = {}
            /\ Idx(fr, "post") = {}
            /\ fr.pc = "returned" => (fr.ret = "False" /\ fr.exc = "none")

\* ---- C3 -------------------------------------------------------------------
\* C3: when a dispatch returns True (not vetoed, nothing raised), the post-hook
\* invocations it made are the registered post-hooks of its kind, one
\* invocation per registration, in registration order, all after the single
\* handler invocation, each with the value the handler returned.
C3_PostHooksOnceInOrder ==
    [][\A d \in DOMAIN frames :
          (frames[d].pc = "post" /\ frames'[d].pc = "returned"
              /\ frames'[d].ret = "True") =>
          LET fr == frames'[d]
              posts == SelectSeq(fr.log, IsPost)
              hooks == _post'[fr.typ]
          IN /\ Cardinality(Idx(fr, "handler")) = 1
             /\ \A h \in Idx(fr, "handler") :
                   /\ \A k \in Idx(fr, "post") : h < k
                   /\ \A k \in Idx(fr, "post") :
                         fr.log[k].res = fr.log[h].val
             /\ Len(posts) = Len(hooks)
             /\ \A k \in 1..Len(posts) : posts[k].f = hooks[k]]_vars

\* a listener dispatch returned True after two different post-hooks ran
C3_Witness ==
    \E d \in DOMAIN frames :
        /\ frames[d].pc = "returned"
        /\ frames[d].ret = "True"
        /\ \E j, k \in Idx(frames[d], "post") :
              frames[d].log[j].f # frames[d].log[k].f
        /\ frames[d].result # frames[d].event

\* ---- C4 -------------------------------------------------------------------
\* C4: the first pre-hook receives the event the dispatch was called with,
\* each later pre-hook receives what the pre-hook before it returned, and the
\* handler receives what the last pre-hook returned (the original event when
\* there is no pre-hook).
C4_PreHookChain ==
    \A d \in DOMAIN frames :
        LET fr == frames[d] IN
        \A k \in Idx(fr, "pre") \cup Idx(fr, "handler") :
            /\ k = 1 => fr.log[k].ev = fr.orig
            /\ k > 1 => /\ fr.log[k - 1].role = "pre"
                        /\ fr.log[k - 1].exc = "none"
                        /\ fr.log[k].ev = fr.log[k - 1].val

\* the listener was called with "hi" behind the upper pre-hook and saw "HI"
C4_Witness ==
    \E d \in DOMAIN frames :
        LET fr == frames[d] IN
        /\ fr.via = "listener"
        /\ fr.orig = "hi"
        /\ Len(fr.log) >= 2
        /\ fr.log[1].role = "pre" /\ fr.log[1].f = "upper"
        /\ fr.log[2].role = "handler" /\ fr.log[2].f = "on_message"
        /\ fr.log[2].ev = "HI"

\* ---- C5 -------------------------------------------------------------------
\* C5: every function a dispatch invokes as a pre-hook (post-hook) is
\* registered in the pre (post) bucket of the kind of that dispatch; a hook
\* registered only for the other kind is never invoked.
C5_KindsIsolated ==
    \A d \in DOMAIN frames :
        LET fr == frames[d] IN
        /\ \A k \in Idx(fr, "pre") : fr.log[k].f \in Range(_pre[fr.typ])
        /\ \A k \in Idx(fr, "post") : fr.log[k].f \in Range(_post[fr.typ])

\* a listener dispatch ran a pre-hook while the command kind has pre-hooks of
\* its own, that hook not among them
C5_Witness ==
    \E d \in DOMAIN frames :
        /\ frames[d].typ = "listener"
        /\ _pre["command"] # <<>>
        /\ \E k \in Idx(frames[d], "pre") :
              frames[d].log[k].f \notin Range(_pre["command"])

\* ---- C6 -------------------------------------------------------------------
\* C6: a destroy() call leaves every Subscription stored in self.listeners
\* removed from the event source.
C6_DestroyRevokesAll ==
    [][Len(destroyed') > Len(destroyed) =>
          \A k \in Range(listeners) : ~subs'[k].active]_vars

\* ---- C7 -------------------------------------------------------------------
\* C7: no destroy() call raises, the first and the second alike.
C7_DestroyNeverRaises ==
    \A k \in 1..Len(destroyed) : destroyed[k] = "none"

\* ---- C8 -------------------------------------------------------------------
\* C8: when the command handler raised a CommandError with message m, execute
\* ends with exactly one reply, carrying m, returns False, raises nothing, and
\* no post-hook was invoked.
C8_CommandErrorReplied ==
    \A d \in DOMAIN frames :
        LET fr == frames[d] IN
        \A h \in Idx(fr, "handler") :
            (fr.via = "execute" /\ fr.pc = "done"
                /\ fr.log[h].exc = "CommandError") =>
            /\ fr.replies = <<fr.log[h].val>>
            /\ fr.ret = "False"
            /\ fr.exc = "none"
            /\ Idx(fr, "post") = {}

\* execute ended after the handler raised CommandError("bad args"), in a
\* plugin that has a post-command hook
C8_Witness ==
    \E d \in DOMAIN frames :
        /\ frames[d].via = "execute"
        /\ frames[d].pc = "done"
        /\ _post["command"] # <<>>
        /\ \E h \in Idx(frames[d], "handler") :
              /\ frames[d].log[h].exc = "CommandError"
              /\ frames[d].log[h].val = "bad args"

\* ---- C9 -------------------------------------------------------------------
\* C9: when the command invocation raised an error other than CommandError,
\* execute ends with that error raised to its caller, no reply sent and no
\* return value.
C9_OtherErrorsPropagate ==
    \A d \in DOMAIN frames :
        LET fr == frames[d] IN
        \A k \in 1..Len(fr.log) :
            (fr.via = "execute" /\ fr.pc = "done"
                /\ fr.log[k].exc \notin {"none", "CommandError"}) =>
            /\ fr.exc = fr.log[k].exc
            /\ fr.replies = <<>>
            /\ fr.ret = ""

\* execute ended after the command handler raised a RuntimeError
C9_Witness ==
    \E d \in DOMAIN frames :
        /\ frames[d].via = "execute"
        /\ frames[d].pc = "done"
        /\ \E h \in Idx(frames[d], "handler") :
              frames[d].log[h].exc = "RuntimeError"

\* ---- C10 ------------------------------------------------------------------
\* C10: the command map has an entry exactly under the names of the functions
\* handed to register_command so far, and the entry under a name is bound to
\* the last function registered under that name.
C10_LastCommandWins ==
    /\ DOMAIN commands = {FuncName(CommandCalls[k].f) :
                             k \in 1..Len(CommandCalls)}
    /\ \A k \in 1..Len(CommandCalls) :
          (\A j \in (k + 1)..Len(CommandCalls) :
              FuncName(CommandCalls[j].f) # FuncName(CommandCalls[k].f)) =>
          commands[FuncName(CommandCalls[k].f)] =
              Command(Partial("command", CommandCalls[k].f))

\* two different functions were registered under the name foo, beside a
\* command under another name
C10_Witness ==
    /\ \E j, k \in 1..Len(CommandCalls) :
          /\ j < k
          /\ CommandCalls[j].f # CommandCalls[k].f
          /\ FuncName(CommandCalls[j].f) = "foo"
          /\ FuncName(CommandCalls[k].f) = "foo"
    /\ "bad" \in DOMAIN commands

\* ---- C11 ------------------------------------------------------------------
IsCtorCall(c) == c.ctor

\* the registration calls the constructor has made so far
CtorCalls == SelectSeq(calls, IsCtorCall)

\* the registration call that matches one tag of a method
TagCall(f, tag) ==
    CASE tag.type = "listener" ->
             [op |-> "register_listener", f |-> f, typ |-> "", when |-> "",
              name |-> tag.event_name, ctor |-> TRUE]
      [] tag.type = "command" ->
             [op |-> "register_command", f |-> f, typ |-> "", when |-> "",
              name |-> "", ctor |-> TRUE]
      [] tag.type = "pre_command" ->
             [op |-> "register_trigger", f |-> f, typ |-> "command",
              when |-> "pre", name |-> "", ctor |-> TRUE]
      [] tag.type = "post_command" ->
             [op |-> "register_trigger", f |-> f, typ |-> "command",
              when |-> "post", name |-> "", ctor |-> TRUE]
      [] tag.type = "pre_listener" ->
             [op |-> "register_trigger", f |-> f, typ |-> "listener",
              when |-> "pre", name |-> "", ctor |-> TRUE]
      [] tag.type = "post_listener" ->
             [op |-> "register_trigger", f |-> f, typ |-> "listener",
              when |-> "post", name |-> "", ctor |-> TRUE]

\* one call per tag, method after method, tag after tag
RECURSIVE TagCalls(_)
TagCalls(ms) ==
    IF ms = <<>>
       THEN <<>>
       ELSE [k \in 1..Len(Head(ms).meta) |->
                TagCall(Head(ms).f, Head(ms).meta[k])] \o TagCalls(Tail(ms))

\* C11: the constructor makes one registration call per tag of each method,
\* the call matching the tag, in the order of the tag sequences; a tag that
\* sits twice on a method yields two calls.
C11_OneCallPerTag ==
    /\ Len(CtorCalls) <= Len(TagCalls(members))
    /\ CtorCalls = SubSeq(TagCalls(members), 1, Len(CtorCalls))
    /\ Constructed => CtorCalls = TagCalls(members)

\* the constructor has finished a class in which one method carries the same
\* tag twice and another carries two different tags
C11_Witness ==
    /\ Constructed
    /\ \E m \in Range(members) :
          Len(m.meta) = 2 /\ m.meta[1] = m.meta[2]
    /\ \E m \in Range(members) :
          Len(m.meta) = 2 /\ m.meta[1].type # m.meta[2].type
    /\ \E j \in 1..Len(CtorCalls) - 1 :
          CtorCalls[j] = CtorCalls[j + 1]

\* ---- C12 ------------------------------------------------------------------
\* C12: every callback subscribed for the plugin is a _dispatch wrapper of
\* kind listener and every Command in the command map holds a _dispatch
\* wrapper of kind command around a function of that name; a call entered
\* through a subscription is a listener dispatch and one entered through
\* execute is a command dispatch, and the one function a dispatch invokes as
\* its handler is the wrapped method, after its pre-hooks and before its
\* post-hooks.
C12_NoBypass ==
    /\ \A k \in Range(listeners) :
          /\ subs[k].func.typ = "listener"
          /\ subs[k].func.func \in HandlerFuncs
    /\ \A n \in DOMAIN commands :
          /\ commands[n].func.typ = "command"
          /\ FuncName(commands[n].func.func) = n
    /\ \A d \in DOMAIN frames :
          LET fr == frames[d] IN
          /\ fr.via = "listener" => fr.typ = "listener"
          /\ fr.via = "execute" => fr.typ = "command"
          /\ \A h \in Idx(fr, "handler") :
                /\ fr.log[h].f = fr.func
                /\ \A k \in Idx(fr, "pre") : k < h
                /\ \A k \in Idx(fr, "post") : h < k
                /\ \A k \in 1..Len(fr.log) :
                      fr.log[k].role = "handler" => k = h

\* execute of the command looked up under the name foo ran the pre-command
\* hooks, then the method registered under foo, then a post-command hook
C12_Witness ==
    \E d \in DOMAIN frames :
        LET fr == frames[d] IN
        /\ fr.via = "execute"
        /\ "foo" \in DOMAIN commands
        /\ fr.func = commands["foo"].func.func
        /\ Idx(fr, "pre") # {}
        /\ Idx(fr, "post") # {}
        /\ \E h \in Idx(fr, "handler") : fr.log[h].exc = "none"

\* ---- C13 ------------------------------------------------------------------
\* C13: a call that raises inside a dispatch (pre-hook, handler or post-hook)
\* is the last call that dispatch makes, and the dispatch ends with that error
\* raised to its caller, without a return value.
C13_ErrorsLeaveDispatch ==
    \A d \in DOMAIN frames :
        LET fr == frames[d] IN
        \A k \in 1..Len(fr.log) :
            fr.log[k].exc # "none" =>
                /\ k = Len(fr.log)
                /\ fr.pc \in {"returned", "done"}
                /\ fr.pc = "returned" =>
                      /\ fr.exc = fr.log[k].exc
                      /\ fr.msg = fr.log[k].val
                      /\ fr.ret = ""

\* a dispatch ended on the error of its first post-hook with a second
\* post-hook registered behind it
C13_Witness ==
    \E d \in DOMAIN frames :
        LET fr == frames[d] IN
        /\ fr.pc = "returned"
        /\ fr.exc = "ValueError"
        /\ fr.log[Len(fr.log)].role = "post"
        /\ fr.i < Len(_post[fr.typ])

\* ---- C14 ------------------------------------------------------------------
\* C14: when remove() raises on one of the stored Subscriptions, a destroy()
\* call still removes every other stored Subscription.
C14_DestroyBestEffort ==
    [][(/\ Len(destroyed') > Len(destroyed)
        /\ \E k \in 1..Len(listeners) : RemoveRaises(listeners[k])) =>
          \A k \in 1..Len(listeners) :
              ~RemoveRaises(listeners[k]) => ~subs'[listeners[k]].active]_vars

\* ---- C15 ------------------------------------------------------------------
\* the dispatch has been entered and has not ended
Running(d) == frames[d].pc \in {"pre", "handler", "post"}

\* C15: a dispatch that was entered ends; one that ends without an error has
\* invoked the handler at most once and returned True exactly when it invoked
\* it and False exactly when it did not; once ended it makes no further call
\* and its outcome does not change (it is only handed to the caller and
\* discarded).
C15_DispatchStateMachine ==
    /\ [](\A d \in ConcIds :
             LET fr == frames[d] IN
             /\ Cardinality(Idx(fr, "handler")) <= 1
             /\ (fr.pc = "returned" /\ fr.exc = "none") =>
                   /\ fr.ret \in {"True", "False"}
                   /\ fr.ret = "True" <=> Idx(fr, "handler") # {}
                   /\ fr.ret = "False" <=> Idx(fr, "handler") = {})
    /\ [][\A d \in ConcIds :
             frames[d].pc = "returned" =>
                 \/ frames'[d] = frames[d]
                 \/ frames'[d] = IdleFrame
                 \/ /\ frames'[d].pc = "done"
                    /\ frames'[d].log = frames[d].log]_vars
    /\ \A d \in ConcIds : Running(d) ~> (frames[d].pc = "returned")

\* one dispatch has ended Completed (True) and another Vetoed (False)
C15_Witness ==
    \E d, e \in DOMAIN frames :
        /\ frames[d].pc = "returned" /\ frames[d].ret = "True"
        /\ frames[e].pc = "returned" /\ frames[e].ret = "False"
        /\ Idx(frames[d], "handler") # {}
        /\ Idx(frames[e], "handler") = {}

\* ---- C17 ------------------------------------------------------------------
IsPre(e) == e.role = "pre"

\* the event a chain of pre-hooks makes of an event
RECURSIVE ChainEvent(_, _)
ChainEvent(ev, es) ==
    IF es = <<>> THEN ev ELSE ChainEvent(AsPre(Head(es).f, ev).val, Tail(es))

\* pre-hooks, then the handler, then post-hooks
Rank(role) == CASE role = "pre" -> 1 [] role = "handler" -> 2 [] OTHER -> 3

\* C17: with several dispatches in flight, each one calls its pre-hooks, then
\* its handler, then its post-hooks, and what each of its calls receives is
\* computed from its own input event alone: a pre-hook or the handler gets
\* that event passed through the pre-hooks this dispatch called before, a
\* post-hook gets the same event and what the handler returns for it.
C17_DispatchesIndependent ==
    \A d \in DOMAIN frames :
        LET fr == frames[d] IN
        \A k \in 1..Len(fr.log) :
            LET own == ChainEvent(fr.orig,
                           SelectSeq(SubSeq(fr.log, 1, k - 1), IsPre))
            IN /\ \A j \in 1..(k - 1) :
                     Rank(fr.log[j].role) <= Rank(fr.log[k].role)
               /\ fr.log[k].ev = own
               /\ fr.log[k].role = "post" =>
                     fr.log[k].res = AsHandler(fr.func, own).val

\* two dispatches are in flight at once, each past its handler, with
\* different results
C17_Witness ==
    \E d, e \in DOMAIN frames :
        /\ frames[d].pc = "post"
        /\ frames[e].pc = "post"
        /\ Idx(frames[d], "post") # {}
        /\ frames[d].result # frames[e].result

\* ---- C16 ------------------------------------------------------------------
\* how often a function sits in a hook list
Count(f, seq) == Cardinality({k \in 1..Len(seq) : seq[k] = f})

\* how often a dispatch has invoked a function in a role
Invoked(fr, role, f) == Cardinality({k \in Idx(fr, role) : fr.log[k].f = f})

\* C16: a register_trigger(kind, when, func) call appends func to the end of
\* the (when, kind) bucket, also when the bucket holds func already, and
\* leaves the other three buckets, the command map, the subscription list and
\* the event source as they are; a dispatch that gets through its pre-hook
\* loop, or returns True, has invoked each function as often as it sits in
\* the bucket.
C16_RegisterTriggerAppends ==
    [][/\ (/\ Len(calls') = Len(calls) + 1
           /\ calls'[Len(calls')].op = "register_trigger") =>
             LET c == calls'[Len(calls')] IN
             /\ \A w \in {"pre", "post"}, t \in Kinds :
                   LET old == IF w = "pre" THEN _pre[t] ELSE _post[t]
                       new == IF w = "pre" THEN _pre'[t] ELSE _post'[t]
                   IN new = IF w = c.when /\ t = c.typ
                               THEN Append(old, c.f) ELSE old
             /\ UNCHANGED <<listeners, commands, subs>>
       /\ \A d \in DOMAIN frames :
             /\ (frames[d].pc = "pre" /\ frames'[d].pc \in {"handler", "returned"}
                    /\ frames'[d].exc = "none") =>
                   \A f \in Funcs : Invoked(frames'[d], "pre", f) =
                                       Count(f, _pre'[frames'[d].typ])
             /\ (frames[d].pc = "post" /\ frames'[d].ret = "True") =>
                   \A f \in Funcs : Invoked(frames'[d], "post", f) =
                                       Count(f, _post'[frames'[d].typ])]_vars

\* a dispatch returned True after it invoked twice the post-hook registered
\* twice for its kind
C16_Witness ==
    \E d \in DOMAIN frames, f \in Funcs :
        /\ frames[d].pc = "returned"
        /\ frames[d].ret = "True"
        /\ Count(f, _post[frames[d].typ]) = 2
        /\ Invoked(frames[d], "post", f) = 2

\* ---- C19 ------------------------------------------------------------------
\* the hooks of a bucket registered by the first n registration calls
HooksAt(n, when, typ) ==
    LET InBucket(c) == /\ c.op = "register_trigger"
                       /\ c.when = when
                       /\ c.typ = typ
        sel == SelectSeq(SubSeq(calls, 1, n), InBucket)
    IN [k \in 1..Len(sel) |-> sel[k].f]

\* the functions a dispatch has invoked in a role, in order
Ran(fr, role) ==
    LET InRole(e) == e.role = role
        sel == SelectSeq(fr.log, InRole)
    IN [k \in 1..Len(sel) |-> sel[k].f]

IsPrefix(s, t) == Len(s) <= Len(t) /\ s = SubSeq(t, 1, Len(s))

\* C19 as claimed: a dispatch that returns True has run exactly the pre-hooks
\* and post-hooks of its kind that were registered when it started.
C19_RunsHooksRegisteredAtStart ==
    \A d \in DOMAIN frames :
        LET fr == frames[d] IN
        (fr.pc = "returned" /\ fr.ret = "True") =>
            /\ Ran(fr, "pre") = HooksAt(fr.start, "pre", fr.typ)
            /\ Ran(fr, "post") = HooksAt(fr.start, "post", fr.typ)

\* C19 amended: the hook lists are read while the dispatch runs: a dispatch
\* that returns True has run, in order, every hook of its kind registered
\* when it started, whether registered before or after its handler, followed
\* by the hooks appended to the bucket before its loop over it ended, and
\* nothing else.
C19_RunsHooksReadAtDispatch ==
    \A d \in DOMAIN frames :
        LET fr == frames[d] IN
        (fr.pc = "returned" /\ fr.ret = "True") =>
            /\ IsPrefix(HooksAt(fr.start, "pre", fr.typ), Ran(fr, "pre"))
            /\ IsPrefix(Ran(fr, "pre"), _pre[fr.typ])
            /\ IsPrefix(HooksAt(fr.start, "post", fr.typ), Ran(fr, "post"))
            /\ IsPrefix(Ran(fr, "post"), _post[fr.typ])

\* a listener dispatch that started while the constructor was scanning, with
\* a post-hook registered before its handler and a pre-hook registered after
\* it, returned True having run both
C19_Witness ==
    \E d \in DOMAIN frames :
        LET fr == frames[d] IN
        /\ fr.pc = "returned"
        /\ fr.ret = "True"
        /\ fr.via = "listener"
        /\ fr.start < Len(TagCalls(members))
        /\ Ran(fr, "pre") # <<>>
        /\ Ran(fr, "post") # <<>>
        /\ \E h \in 1..Len(calls) :
              /\ calls[h].op = "register_listener"
              /\ calls[h].f = fr.func
              /\ \E j \in 1..(h - 1) : calls[j].op = "register_trigger"
              /\ \E j \in (h + 1)..Len(calls) :
                    calls[j].op = "register_trigger" /\ calls[j].when = "pre"

\* ---- C18 ------------------------------------------------------------------
\* the value the pre-hook loop of a dispatch has left so far
Final(fr) ==
    LET pres == Idx(fr, "pre")
    IN IF pres = {} THEN fr.orig
       ELSE fr.log[CHOOSE k \in pres : \A j \in pres : j <= k].val

\* the pre-hook loop of a dispatch has ended without an error
LoopOver(fr) ==
    /\ fr.pc \in {"handler", "post", "returned", "done"}
    /\ \A k \in Idx(fr, "pre") : fr.log[k].exc = "none"

\* C18: the None test comes after the whole pre-hook loop: by then every
\* pre-hook registered when the dispatch started has been called, and the
\* handler is invoked if and only if the value the loop left (the incoming
\* event when there is no pre-hook) is not None; when it is None the dispatch
\* returns False with neither handler nor post-hook invoked.
C18_VetoTestAfterChain ==
    \A d \in DOMAIN frames :
        LET fr == frames[d] IN
        LoopOver(fr) =>
            /\ IsPrefix(HooksAt(fr.start, "pre", fr.typ), Ran(fr, "pre"))
            /\ (fr.pc = "handler" \/ Idx(fr, "handler") # {}) <=>
                  Final(fr) # None
            /\ Final(fr) = None =>
                  /\ Idx(fr, "handler") = {}
                  /\ Idx(fr, "post") = {}
                  /\ fr.ret = "False"

\* a dispatch entered with None and no pre-hook of its kind registered
\* returned False without calling anything, post-hooks being registered
C18_Witness ==
    \E d \in DOMAIN frames :
        /\ frames[d].pc = "returned"
        /\ frames[d].orig = None
        /\ frames[d].ret = "False"
        /\ frames[d].log = <<>>
        /\ _pre[frames[d].typ] = <<>>
        /\ _post[frames[d].typ] # <<>>

\* ---- C20 ------------------------------------------------------------------
\* C20: a step of a dispatch or of execute (entering it, a hook or handler
\* call, the None test, a return, the handling of a CommandError, the hand
\* back to the caller) leaves the command map, the four hook buckets, the
\* subscription list and the event source's subscriptions unchanged.
C20_DispatchKeepsRegistry ==
    [][frames' # frames =>
          /\ commands' = commands
          /\ _pre' = _pre
          /\ _post' = _post
          /\ listeners' = listeners
          /\ subs' = subs]_vars

\* with hooks and commands registered, one call has ended on an error that
\* left _dispatch and execute, and execute has replied to a CommandError
C20_Witness ==
    \E d \in DOMAIN frames :
        LET fr == frames[d] IN
        /\ fr.via = "execute"
        /\ fr.pc = "done"
        /\ fr.replies # <<>>
        /\ _pre["command"] # <<>>
        /\ _post["command"] # <<>>
        /\ DOMAIN commands # {}

====
